---- MODULE Spec2Model ----
(***************************************************************************)
(* Model of the 1&1 cloud-server driver:                                   *)
(*   src/libcloud/common/oneandone.py          (response, connection)      *)
(*   src/libcloud/compute/drivers/oneandone.py (facade, v1 driver)         *)
(*                                                                         *)
(* Python values are tagged records [t, v]; a call's outcome is either a   *)
(* returned value or a raised exception.  A dict is the sequence of its    *)
(* <<key, value>> items in insertion order; a str is a string over the     *)
(* ASCII characters Ord is defined for.                                    *)
(***************************************************************************)
EXTENDS Integers, Sequences, FiniteSets, TLC

VARIABLES driver, requests, history, last, call

vars == <<driver, requests, history, last, call>>

(***************************************************************************)
(* Bounds of the model.                                                    *)
(***************************************************************************)
MaxCalls == 2
MaxList == 2

(***************************************************************************)
(* Python / JSON values.                                                   *)
(***************************************************************************)
JStr(s) == [t |-> "str", v |-> s]
JInt(n) == [t |-> "int", v |-> n]
JBool(b) == [t |-> "bool", v |-> b]
JNull == [t |-> "null", v |-> ""]
JObj(items) == [t |-> "obj", v |-> items]
JList(q) == [t |-> "list", v |-> q]

\* Dicts: {}, {k1: v1}, key in d, d[key], d.update(g)
EmptyDict == <<>>
D1(k1, v1) == << <<k1, v1>> >>
HasKey(items, k) == \E i \in 1..Len(items) : items[i][1] = k
Lookup(items, k) == items[CHOOSE i \in 1..Len(items) : items[i][1] = k][2]
Merge(f, g) ==
    [i \in 1..Len(f) |-> IF HasKey(g, f[i][1]) THEN <<f[i][1], Lookup(g, f[i][1])>> ELSE f[i]]
        \o SelectSeq(g, LAMBDA e : ~HasKey(f, e[1]))

\* Outcome of evaluating an expression or a call.
Ok(v) == [kind |-> "return", exc |-> "", val |-> v]
Raise(e, v) == [kind |-> "raise", exc |-> e, val |-> v]
Raised(r) == r.kind = "raise"

\* type(x).__name__, the operand a TypeError or AttributeError is about
TypeName(x) ==
    CASE x.t = "null" -> "NoneType"
      [] x.t = "obj" -> "dict"
      [] OTHER -> x.t

(***************************************************************************)
(* Characters.                                                             *)
(***************************************************************************)
AsciiLow == " !\"#$%&'()*+,-./0123456789:;<=>?@ABCDEFGHIJKLMNOPQRSTUVWXYZ[\\]^_"
AsciiHigh == "abcdefghijklmnopqrstuvwxyz{|}~"
HexDigits == "0123456789abcdef"
\* chr(127), the delete character
DEL == ""

Char(s, i) == SubSeq(s, i, i)
Occurs(c, s) == \E i \in 1..Len(s) : Char(s, i) = c
IndexIn(c, s) == CHOOSE i \in 1..Len(s) : Char(s, i) = c

\* ord(c), for the characters of the model's strings
Alphabet ==
    {Char(AsciiLow, i) : i \in 1..Len(AsciiLow)}
        \cup {Char(AsciiHigh, i) : i \in 1..Len(AsciiHigh)}
        \cup {"\t", "\n", "\f", "\r", DEL}
CodePoints ==
    [c \in Alphabet |->
        IF Occurs(c, AsciiLow) THEN 31 + IndexIn(c, AsciiLow)
        ELSE IF Occurs(c, AsciiHigh) THEN 96 + IndexIn(c, AsciiHigh)
        ELSE CASE c = "\t" -> 9
               [] c = "\n" -> 10
               [] c = "\f" -> 12
               [] c = "\r" -> 13
               [] c = DEL -> 127]
Ord(c) == CodePoints[c]

\* n in hexadecimal, w digits
RECURSIVE Hex(_, _)
Hex(n, w) == IF w = 0 THEN "" ELSE Hex(n \div 16, w - 1) \o Char(HexDigits, (n % 16) + 1)

IsDigit(c) == Ord(c) >= 48 /\ Ord(c) <= 57
DigitVal(c) == Ord(c) - 48
IsSpace(c) == Ord(c) \in {9, 10, 11, 12, 13, 28, 29, 30, 31, 32, 133, 160}

(***************************************************************************)
(* Built-in operations the code applies to decoded values.                 *)
(***************************************************************************)
\* key in container
In(key, c) ==
    IF c.t = "obj" THEN Ok(HasKey(c.v, key))
    ELSE IF c.t = "list" THEN Ok(\E i \in 1..Len(c.v) : c.v[i] = JStr(key))
    ELSE IF c.t = "str"
         THEN Ok(\E i \in 0..(Len(c.v) - Len(key)) : SubSeq(c.v, i + 1, i + Len(key)) = key)
    ELSE Raise("TypeError", JStr(TypeName(c)))

\* container[key] with a string key
GetItem(c, key) ==
    IF c.t = "obj"
    THEN IF HasKey(c.v, key) THEN Ok(Lookup(c.v, key)) ELSE Raise("KeyError", JStr(key))
    ELSE Raise("TypeError", JStr(TypeName(c)))

\* Mutant: an empty list yields an entry of size 0 instead of an IndexError.
GetFirst_mut(c) ==
    IF c.t = "list"
    THEN IF Len(c.v) > 0 THEN Ok(c.v[1]) ELSE Ok(JObj(D1("size", JInt(0))))
    ELSE IF c.t = "str"
         THEN IF Len(c.v) > 0 THEN Ok(JStr(Char(c.v, 1)))
              ELSE Raise("IndexError", JStr("string index out of range"))
    ELSE IF c.t = "obj" THEN Raise("KeyError", JInt(0))
    ELSE Raise("TypeError", JStr(TypeName(c)))

\* container[0]
GetFirst(c) ==
    IF c.t = "list"
    THEN IF Len(c.v) > 0 THEN Ok(c.v[1])
         ELSE Raise("IndexError", JStr("list index out of range"))
    ELSE IF c.t = "str"
         THEN IF Len(c.v) > 0 THEN Ok(JStr(Char(c.v, 1)))
              ELSE Raise("IndexError", JStr("string index out of range"))
    ELSE IF c.t = "obj" THEN Raise("KeyError", JInt(0))
    ELSE Raise("TypeError", JStr(TypeName(c)))

\* container.get(key, default)
Get(c, key, default) ==
    IF c.t = "obj" THEN Ok(IF HasKey(c.v, key) THEN Lookup(c.v, key) ELSE default)
    ELSE Raise("AttributeError", JStr(TypeName(c)))

\* iter(container), as map() walks it
Iter(c) ==
    IF c.t = "list" THEN Ok(c.v)
    ELSE IF c.t = "obj" THEN Ok([i \in 1..Len(c.v) |-> JStr(c.v[i][1])])
    ELSE IF c.t = "str" THEN Ok([i \in 1..Len(c.v) |-> JStr(Char(c.v, i))])
    ELSE Raise("TypeError", JStr(TypeName(c)))

\* repr(x)
ReprQuote(s) == IF Occurs("'", s) /\ ~Occurs("\"", s) THEN "\"" ELSE "'"
ReprChar(c, q) ==
    IF c = "\\" THEN "\\\\"
    ELSE IF c = q THEN "\\" \o q
    ELSE IF c = "\t" THEN "\\t"
    ELSE IF c = "\n" THEN "\\n"
    ELSE IF c = "\r" THEN "\\r"
    ELSE IF Ord(c) < 32 \/ Ord(c) = 127 THEN "\\x" \o Hex(Ord(c), 2)
    ELSE c
RECURSIVE ReprChars(_, _, _)
ReprChars(s, i, q) ==
    IF i > Len(s) THEN "" ELSE ReprChar(Char(s, i), q) \o ReprChars(s, i + 1, q)
ReprStr(s) == ReprQuote(s) \o ReprChars(s, 1, ReprQuote(s)) \o ReprQuote(s)

RECURSIVE Repr(_), ReprItems(_, _), ReprElems(_, _)
Repr(x) ==
    IF x.t = "str" THEN ReprStr(x.v)
    ELSE IF x.t = "int" THEN ToString(x.v)
    ELSE IF x.t = "bool" THEN (IF x.v THEN "True" ELSE "False")
    ELSE IF x.t = "null" THEN "None"
    ELSE IF x.t = "obj" THEN "{" \o ReprItems(x.v, 1) \o "}"
    ELSE "[" \o ReprElems(x.v, 1) \o "]"
ReprItems(items, i) ==
    IF i > Len(items) THEN ""
    ELSE (IF i > 1 THEN ", " ELSE "")
         \o ReprStr(items[i][1]) \o ": " \o Repr(items[i][2])
         \o ReprItems(items, i + 1)
ReprElems(q, i) ==
    IF i > Len(q) THEN ""
    ELSE (IF i > 1 THEN ", " ELSE "") \o Repr(q[i]) \o ReprElems(q, i + 1)

\* str(x) as the % operator applies it
StrOf(x) == IF x.t = "str" THEN x.v ELSE Repr(x)

\* int(x)
RECURSIVE LStrip(_)
LStrip(s) == IF Len(s) > 0 /\ IsSpace(Char(s, 1)) THEN LStrip(SubSeq(s, 2, Len(s))) ELSE s
RECURSIVE RStrip(_)
RStrip(s) ==
    IF Len(s) > 0 /\ IsSpace(Char(s, Len(s))) THEN RStrip(SubSeq(s, 1, Len(s) - 1)) ELSE s
\* the value of a run of digits with single underscores between digits,
\* -1 when it is anything else
RECURSIVE ParseDigits(_, _, _)
ParseDigits(s, i, acc) ==
    IF i > Len(s) THEN acc
    ELSE IF IsDigit(Char(s, i)) THEN ParseDigits(s, i + 1, acc * 10 + DigitVal(Char(s, i)))
    ELSE IF /\ Char(s, i) = "_" /\ i > 1 /\ i < Len(s)
            /\ IsDigit(Char(s, i - 1)) /\ IsDigit(Char(s, i + 1))
         THEN ParseDigits(s, i + 1, acc)
    ELSE -1
ParseInt(s) ==
    LET t == RStrip(LStrip(s))
        signed == Len(t) > 0 /\ Char(t, 1) \in {"+", "-"}
        digits == IF signed THEN SubSeq(t, 2, Len(t)) ELSE t
        n == IF Len(digits) = 0 THEN -1 ELSE ParseDigits(digits, 1, 0)
    IN IF n < 0 THEN Raise("ValueError", JStr(s))
       ELSE Ok(IF signed /\ Char(t, 1) = "-" THEN 0 - n ELSE n)
IntOf(x) ==
    IF x.t = "int" THEN Ok(x.v)
    ELSE IF x.t = "bool" THEN Ok(IF x.v THEN 1 ELSE 0)
    ELSE IF x.t = "str" THEN ParseInt(x.v)
    ELSE Raise("TypeError", JStr(TypeName(x)))

\* json.dumps(x)
DumpsChar(c) ==
    IF c = "\"" THEN "\\\""
    ELSE IF c = "\\" THEN "\\\\"
    ELSE IF c = "\n" THEN "\\n"
    ELSE IF c = "\r" THEN "\\r"
    ELSE IF c = "\t" THEN "\\t"
    ELSE IF c = "\f" THEN "\\f"
    ELSE IF Ord(c) < 32 \/ Ord(c) > 126 THEN "\\u" \o Hex(Ord(c), 4)
    ELSE c
RECURSIVE DumpsChars(_, _)
DumpsChars(s, i) == IF i > Len(s) THEN "" ELSE DumpsChar(Char(s, i)) \o DumpsChars(s, i + 1)
DumpsStr(s) == "\"" \o DumpsChars(s, 1) \o "\""

\* The objects the encoder rejects, in the order it meets them.
RECURSIVE Unserializable(_), UnserializableIn(_, _)
Unserializable(x) ==
    IF x.t \in {"str", "int", "bool", "null"} THEN <<>>
    ELSE IF x.t = "obj" THEN UnserializableIn([i \in 1..Len(x.v) |-> x.v[i][2]], 1)
    ELSE IF x.t = "list" THEN UnserializableIn(x.v, 1)
    ELSE <<x>>
UnserializableIn(q, i) ==
    IF i > Len(q) THEN <<>> ELSE Unserializable(q[i]) \o UnserializableIn(q, i + 1)

RECURSIVE DumpsText(_), DumpItems(_, _), DumpElems(_, _)
DumpsText(x) ==
    IF x.t = "str" THEN DumpsStr(x.v)
    ELSE IF x.t = "int" THEN ToString(x.v)
    ELSE IF x.t = "bool" THEN (IF x.v THEN "true" ELSE "false")
    ELSE IF x.t = "null" THEN "null"
    ELSE IF x.t = "obj" THEN "{" \o DumpItems(x.v, 1) \o "}"
    ELSE "[" \o DumpElems(x.v, 1) \o "]"
DumpItems(items, i) ==
    IF i > Len(items) THEN ""
    ELSE (IF i > 1 THEN ", " ELSE "")
         \o DumpsStr(items[i][1]) \o ": " \o DumpsText(items[i][2])
         \o DumpItems(items, i + 1)
DumpElems(q, i) ==
    IF i > Len(q) THEN ""
    ELSE (IF i > 1 THEN ", " ELSE "") \o DumpsText(q[i]) \o DumpElems(q, i + 1)
Dumps(x) ==
    LET bad == Unserializable(x)
    IN IF Len(bad) = 0 THEN Ok(JStr(DumpsText(x)))
       ELSE Raise("TypeError", JStr("Object of type " \o TypeName(bad[1])
                                    \o " is not JSON serializable"))

(***************************************************************************)
(* common/oneandone.py: OneAndOne_v1_Response                              *)
(***************************************************************************)
OK == 200
CREATED == 201
ACCEPTED == 202
NO_CONTENT == 204
UNAUTHORIZED == 401

valid_response_codes == {OK, ACCEPTED, CREATED, NO_CONTENT}

\* Mutant: every 2xx code counts as a success.
success_mut(status) == status >= 200 /\ status < 300

success(status) == status \in valid_response_codes

parse_error(status, body) ==
    IF status = UNAUTHORIZED
    THEN LET m == GetItem(body, "message")
         IN IF Raised(m) THEN m ELSE Raise("InvalidCredsError", m.val)
    ELSE LET has == In("message", body)
             m == GetItem(body, "message")
         IN IF Raised(has) THEN has
            ELSE IF has.val
                 THEN IF Raised(m) THEN m
                      ELSE Ok(JStr(StrOf(m.val) \o " (code: " \o ToString(status) \o ")"))
            ELSE Ok(body)

(***************************************************************************)
(* common/oneandone.py: OneAndOne_v1_Connection                            *)
(***************************************************************************)
EmptyHeaders == EmptyDict

\* Mutant: the content type is not set.
add_default_headers_mut(key, headers) == Merge(headers, D1("X-token", key))

add_default_headers(key, headers) ==
    Merge(Merge(headers, D1("X-token", key)),
          D1("Content-Type", JStr("application/json")))

\* ConnectionKey.request of the base library: builds the headers through
\* add_default_headers, performs one round trip, wraps the reply in the
\* response class, which raises when success() is false.
ConnectionRequest(key, path, data, method, resp) ==
    LET req == [method |-> method, path |-> path,
                headers |-> add_default_headers(key, EmptyHeaders),
                data |-> data]
        err == parse_error(resp.status, resp.body)
        out == IF success(resp.status) THEN Ok(resp.body)
               ELSE IF Raised(err) THEN err
               ELSE Raise("VendorError", err.val)
    IN [reqs |-> <<req>>, out |-> out]

(***************************************************************************)
(* Driver construction: the __new__ of each class and the v1 __init__.     *)
(***************************************************************************)
NoDriver == [cls |-> "", key |-> JNull, ex_per_page |-> 0]

\* common/oneandone.py: OneAndOneBaseDriver.__new__
OneAndOneBaseDriver_new(cls, key, api_version) ==
    IF cls = "OneAndOneBaseDriver"
    THEN Ok("OneAndOne_v1_BaseDriver")
    ELSE Raise("TypeError", JStr("'NotImplementedType' object is not callable"))

\* compute/drivers/oneandone.py: OneAndOneNodeDriver.__new__
OneAndOneNodeDriver_new(cls, key, api_version) ==
    IF cls = "OneAndOneNodeDriver"
    THEN IF key = JNull
         THEN Raise("InvalidCredsError", JStr("key missing for v1 authentication"))
         ELSE Ok("OneAndOne_v1_NodeDriver")
    ELSE Raise("NotImplementedError",
               JStr("Unsupported API version: " \o StrOf(api_version)))

\* common/oneandone.py: OneAndOne_v1_BaseDriver.__init__
OneAndOne_v1_BaseDriver_init(cls, key) ==
    [cls |-> cls, key |-> key, ex_per_page |-> 200]

\* cls(key, api_version=api_version): __new__ is looked up along the class's
\* method resolution order, then __init__ runs on the instance returned.
Construct(cls, key, api_version) ==
    LET made == IF cls = "OneAndOneNodeDriver"
                THEN OneAndOneNodeDriver_new(cls, key, api_version)
                ELSE OneAndOneBaseDriver_new(cls, key, api_version)
    IN IF Raised(made) THEN made
       ELSE Ok(OneAndOne_v1_BaseDriver_init(made.val, key))

(***************************************************************************)
(* compute/drivers/oneandone.py: OneAndOne_v1_NodeDriver                   *)
(***************************************************************************)
PENDING == "pending"
REBOOTING == "rebooting"
RUNNING == "running"
UNKNOWN == "unknown"

\* Mutant: POWERED_OFF is looked up as unknown.
NODE_STATE_MAP_mut ==
    [s \in {"DEPLOYING", "POWERED_ON"} |->
        IF s = "DEPLOYING" THEN PENDING ELSE RUNNING]

NODE_STATE_MAP ==
    [s \in {"DEPLOYING", "POWERED_OFF", "POWERED_ON"} |->
        IF s = "DEPLOYING" THEN PENDING
        ELSE IF s = "POWERED_OFF" THEN REBOOTING
        ELSE RUNNING]

\* NODE_STATE_MAP.get(x, NodeState.UNKNOWN)
NodeStateGet(x) ==
    IF x.t \in {"obj", "list"} THEN Raise("TypeError", JStr(TypeName(x)))
    ELSE IF x.t = "str" /\ x.v \in DOMAIN NODE_STATE_MAP THEN Ok(NODE_STATE_MAP[x.v])
    ELSE Ok(UNKNOWN)

\* The first raised outcome of a sequence of outcomes, in order.
RECURSIVE FirstRaised(_, _)
FirstRaised(outs, i) ==
    IF i > Len(outs) THEN Ok(JNull)
    ELSE IF Raised(outs[i]) THEN outs[i]
    ELSE FirstRaised(outs, i + 1)

\* extra = {}; for key in extra_keys: if key in d: extra[key] = d[key]
RECURSIVE Extra(_, _, _, _)
Extra(extra_keys, d, i, extra) ==
    IF i > Len(extra_keys) THEN Ok(extra)
    ELSE LET has == In(extra_keys[i], d)
             x == GetItem(d, extra_keys[i])
         IN IF Raised(has) THEN has
            ELSE IF ~has.val THEN Extra(extra_keys, d, i + 1, extra)
            ELSE IF Raised(x) THEN x
            ELSE Extra(extra_keys, d, i + 1, Merge(extra, D1(extra_keys[i], x.val)))

_to_node(data) ==
    LET extra_keys == <<"backups_active", "region_id", "image_id", "size_id">>
        has_status == In("status", data)
        status == GetItem(data, "status")
        st == IF Raised(status) THEN status ELSE GetItem(status.val, "state")
        state == IF Raised(has_status) THEN has_status
                 ELSE IF ~has_status.val THEN Ok(UNKNOWN)
                 ELSE IF Raised(st) THEN st
                 ELSE NodeStateGet(st.val)
        has_ips == In("ips", data)
        ips == GetItem(data, "ips")
        public_ips == IF Raised(has_ips) THEN has_ips
                      ELSE IF ~has_ips.val THEN Ok(<<>>)
                      ELSE IF Raised(ips) THEN ips
                      ELSE Ok(IF ips.val # JNull THEN <<ips.val>> ELSE <<>>)
        extra == Extra(extra_keys, data, 1, EmptyDict)
        id == GetItem(data, "id")
        name == GetItem(data, "name")
        bad == FirstRaised(<<state, public_ips, extra, id, name>>, 1)
    IN IF Raised(bad) THEN bad
       ELSE Ok([t |-> "Node",
                v |-> [id |-> id.val, name |-> name.val, state |-> state.val,
                       public_ips |-> public_ips.val, private_ips |-> JNull,
                       extra |-> extra.val]])

_to_image(data) ==
    LET os == GetItem(data, "os")
        os_version == GetItem(data, "os_version")
        architecture == GetItem(data, "architecture")
        id == GetItem(data, "id")
        name == GetItem(data, "name")
        bad == FirstRaised(<<os, os_version, architecture, id, name>>, 1)
    IN IF Raised(bad) THEN bad
       ELSE Ok([t |-> "NodeImage",
                v |-> [id |-> id.val, name |-> name.val,
                       extra |-> <<<<"os", os.val>>, <<"os_version", os_version.val>>,
                                   <<"architecture", architecture.val>>>>]])

_to_location(data) ==
    LET id == GetItem(data, "id")
        name == GetItem(data, "location")
        country == GetItem(data, "country_code")
        bad == FirstRaised(<<id, name, country>>, 1)
    IN IF Raised(bad) THEN bad
       ELSE Ok([t |-> "NodeLocation",
                v |-> [id |-> id.val, name |-> name.val, country |-> country.val]])

_to_size(data) ==
    LET extra_keys == <<"vcore", "cores_per_processor">>
        has == In("hardware", data)
        hardware == GetItem(data, "hardware")
        ramv == IF Raised(hardware) THEN hardware ELSE GetItem(hardware.val, "ram")
        rami == IF Raised(ramv) THEN ramv ELSE IntOf(ramv.val)
        ram == IF Raised(rami) THEN rami ELSE Ok(JInt(rami.val * 1024))
        hdds == IF Raised(hardware) THEN hardware ELSE GetItem(hardware.val, "hdds")
        hdd0 == IF Raised(hdds) THEN hdds ELSE GetFirst(hdds.val)
        hdds_size == IF Raised(hdd0) THEN hdd0 ELSE GetItem(hdd0.val, "size")
        extra == IF Raised(hardware) THEN hardware
                 ELSE Extra(extra_keys, hardware.val, 1, EmptyDict)
        id == GetItem(data, "id")
        name == GetItem(data, "name")
        unbound == Raise("UnboundLocalError", JStr("ram"))
        bad == IF Raised(has) THEN has
               ELSE IF has.val THEN FirstRaised(<<ram, hdds_size, extra, id, name>>, 1)
               ELSE FirstRaised(<<id, name, unbound>>, 1)
    IN IF Raised(bad) THEN bad
       ELSE Ok([t |-> "NodeSize",
                v |-> [id |-> id.val, name |-> name.val, ram |-> ram.val,
                       disk |-> hdds_size.val, bandwidth |-> 0, price |-> 0,
                       extra |-> extra.val]])

\* list(map(f, data)), given the outcome of f on each element in order
MapList(outs) ==
    LET bad == FirstRaised(outs, 1)
    IN IF Raised(bad) THEN bad
       ELSE Ok(JList([i \in 1..Len(outs) |-> outs[i].val]))

\* Mutant: a failed request is issued a second time.
list_nodes_mut(self, resp) ==
    LET r == ConnectionRequest(self.key, "/v1/servers", JNull, "GET", resp)
        data == IF Raised(r.out) THEN r.out ELSE Iter(r.out.val)
    IN [reqs |-> IF Raised(r.out) THEN r.reqs \o r.reqs ELSE r.reqs,
        out |-> IF Raised(data) THEN data
                ELSE MapList([i \in 1..Len(data.val) |-> _to_node(data.val[i])])]

list_nodes(self, resp) ==
    LET r == ConnectionRequest(self.key, "/v1/servers", JNull, "GET", resp)
        data == IF Raised(r.out) THEN r.out ELSE Iter(r.out.val)
    IN [reqs |-> r.reqs,
        out |-> IF Raised(data) THEN data
                ELSE MapList([i \in 1..Len(data.val) |-> _to_node(data.val[i])])]

list_locations(self, resp) ==
    LET r == ConnectionRequest(self.key, "/v1/datacenters", JNull, "GET", resp)
        data == IF Raised(r.out) THEN r.out ELSE Iter(r.out.val)
    IN [reqs |-> r.reqs,
        out |-> IF Raised(data) THEN data
                ELSE MapList([i \in 1..Len(data.val) |-> _to_location(data.val[i])])]

list_images(self, resp) ==
    LET r == ConnectionRequest(self.key, "/v1/server_appliances", JNull, "GET", resp)
        data == IF Raised(r.out) THEN r.out ELSE Iter(r.out.val)
    IN [reqs |-> r.reqs,
        out |-> IF Raised(data) THEN data
                ELSE MapList([i \in 1..Len(data.val) |-> _to_image(data.val[i])])]

list_sizes(self, resp) ==
    LET r == ConnectionRequest(self.key, "/v1/servers/fixed_instance_sizes", JNull,
                               "GET", resp)
        data == IF Raised(r.out) THEN r.out ELSE Iter(r.out.val)
    IN [reqs |-> r.reqs,
        out |-> IF Raised(data) THEN data
                ELSE MapList([i \in 1..Len(data.val) |-> _to_size(data.val[i])])]

APPLIANCE_ID == "7B9067380CB74BBDFE7F473DEEA2AF5C"

\* size.id of the size argument
SizeId(size) ==
    IF size.t \in {"Node", "NodeSize", "NodeImage", "NodeLocation"} THEN Ok(size.v.id)
    ELSE Raise("AttributeError", JStr(TypeName(size)))

\* Mutant: the appliance is taken from the image argument.
create_node_form_mut(name, size, image, location) ==
    LET hardware == JObj(D1("fixed_instance_size_id", SizeId(size).val))
    IN JObj(<< <<"name", name>>, <<"description", JStr("test")>>,
               <<"hardware", hardware>>, <<"appliance_id", image.v.id>> >>)

\* The form create_node builds before it posts.
create_node_form(name, size, image, location) ==
    LET hardware == JObj(D1("fixed_instance_size_id", SizeId(size).val))
    IN JObj(<< <<"name", name>>, <<"description", JStr("test")>>,
               <<"hardware", hardware>>, <<"appliance_id", JStr(APPLIANCE_ID)>> >>)

\* Mutant: error_message does not fall back to message.
create_node_mut(self, name, size, image, location, resp) ==
    LET id == SizeId(size)
        body == Dumps(create_node_form(name, size, image, location))
        r == ConnectionRequest(self.key, "/v1/servers", body.val, "POST", resp)
        data == r.out
        status == Get(data.val, "status", JStr("OK"))
        error_message == Get(data.val, "error_message", JNull)
    IN IF Raised(id) THEN [reqs |-> <<>>, out |-> id]
       ELSE IF Raised(body) THEN [reqs |-> <<>>, out |-> body]
       ELSE [reqs |-> r.reqs,
             out |-> IF Raised(data) THEN data
                     ELSE IF Raised(status) THEN status
                     ELSE IF status.val = JStr("ERROR")
                          THEN Raise("ValueError",
                                     JStr("Failed to create node: "
                                          \o StrOf(error_message.val)))
                     ELSE _to_node(data.val)]

create_node(self, name, size, image, location, resp) ==
    LET id == SizeId(size)
        body == Dumps(create_node_form(name, size, image, location))
        r == ConnectionRequest(self.key, "/v1/servers", body.val, "POST", resp)
        data == r.out
        status == Get(data.val, "status", JStr("OK"))
        message == Get(data.val, "message", JNull)
        error_message == Get(data.val, "error_message", message.val)
    IN IF Raised(id) THEN [reqs |-> <<>>, out |-> id]
       ELSE IF Raised(body) THEN [reqs |-> <<>>, out |-> body]
       ELSE [reqs |-> r.reqs,
             out |-> IF Raised(data) THEN data
                     ELSE IF Raised(status) THEN status
                     ELSE IF status.val = JStr("ERROR")
                          THEN Raise("ValueError",
                                     JStr("Failed to create node: "
                                          \o StrOf(error_message.val)))
                     ELSE _to_node(data.val)]

(***************************************************************************)
(* Inputs: status codes and decoded bodies the server may answer with,     *)
(* and the arguments a caller may pass.                                    *)
(***************************************************************************)
StatusCodes == {200, 201, 202, 203, 204, 205, 400, 401, 403, 404, 500}
SuccessCodes == {c \in StatusCodes : success(c)}
FailureCodes == StatusCodes \ SuccessCodes

\* base, and base with key set to each of vals
WithOpt(S, key, vals) == S \cup {Merge(b, D1(key, v)) : b \in S, v \in vals}

\* d without key
Without(d, key) == SelectSeq(d, LAMBDA e : e[1] # key)

\* all sequences over S of length up to n
RECURSIVE SeqsUpTo(_, _)
SeqsUpTo(S, n) ==
    IF n = 0 THEN {<<>>}
    ELSE LET shorter == SeqsUpTo(S, n - 1)
         IN shorter \cup {Append(q, x) : q \in {r \in shorter : Len(r) = n - 1}, x \in S}

IdName == Merge(D1("id", JStr("1")), D1("name", JStr("n")))

\* Decoded bodies that are not objects.
Scalars == {JNull, JInt(5), JBool(TRUE), JStr("")}

StateObj(s) == JObj(D1("state", s))
NodeStatusValues ==
    {StateObj(JStr(s)) : s \in {"DEPLOYING", "POWERED_OFF", "POWERED_ON", "REMOVING"}}
        \cup {StateObj(JInt(5)), StateObj(JNull), StateObj(JList(<<>>))}
        \cup {JObj(EmptyDict), JStr("OK"), JStr("a state"), JNull}

\* Server payloads for the node mapping.
NodePayloads ==
    LET ids == {IdName, D1("id", JStr("1")), D1("name", JStr("n"))}
        a == WithOpt(ids, "status", NodeStatusValues)
        b == WithOpt(a, "ips", {JNull, JStr("1.2.3.4")})
        c == WithOpt(b, "backups_active", {JStr("yes")})
        d == WithOpt(c, "size_id", {JStr("S")})
    IN {JObj(f) : f \in d}
           \cup Scalars
           \cup {JStr("status"), JStr("my ips"), JStr("size_id"), JStr("name"),
                 JList(<<>>), JList(<<JStr("status")>>), JList(<<JStr("ips")>>),
                 JList(<<JStr("region_id"), JStr("id")>>)}

\* Fixed-instance-size payloads for the size mapping.
Hdd(n) == JObj(D1("size", JInt(n)))
RamValues ==
    {JStr("2"), JInt(4), JStr("abc"), JNull, JStr("8"), JStr(" 2 "), JStr("-3"),
     JStr("+16\n"), JStr("1_0"), JStr("1__0"), JStr("_1"), JStr("- 3"), JStr("2.5"),
     JStr(""), JStr(DEL), JBool(TRUE), JList(<<>>)}
HddsValues ==
    {JList(<<>>), JList(<<Hdd(40)>>), JList(<<Hdd(40), Hdd(80)>>),
     JList(<<JObj(EmptyDict)>>), JList(<<JStr("size")>>), JStr("abc"), JStr(""),
     JObj(D1("size", JInt(40))), JNull}
SizePayloads ==
    LET ids == {IdName, D1("name", JStr("n"))}
        r == WithOpt({EmptyDict}, "ram", RamValues)
        h == WithOpt(r, "hdds", HddsValues)
        c == WithOpt(h, "vcore", {JInt(2)})
        hw == {JObj(f) : f \in c} \cup {JNull, JStr("ram"), JList(<<JStr("ram")>>)}
    IN {JObj(f) : f \in WithOpt(ids, "hardware", hw)}
           \cup Scalars \cup {JStr("hardware"), JList(<<JStr("hardware")>>)}

FullImage ==
    Merge(IdName, Merge(D1("os", JStr("Linux")),
          Merge(D1("os_version", JStr("7")), D1("architecture", JInt(64)))))
ImagePayloads ==
    {JObj(FullImage)} \cup {JObj(Without(FullImage, x)) : x \in {"id", "name", "os",
                                                                   "os_version",
                                                                   "architecture"}}
        \cup Scalars \cup {JStr("os"), JList(<<JStr("os")>>)}

FullLocation ==
    Merge(D1("id", JStr("L1")),
          Merge(D1("location", JStr("Lon")), D1("country_code", JStr("GB"))))
LocationPayloads ==
    {JObj(FullLocation)}
        \cup {JObj(Without(FullLocation, x)) : x \in {"id", "location", "country_code"}}
        \cup Scalars \cup {JStr("id"), JList(<<JStr("id")>>)}

\* Values a message field may hold.
MessageValues ==
    {JStr("boom"), JStr("bad token"), JStr("it's \"x\"\n"), JInt(7), JNull, JBool(FALSE),
     JObj(EmptyDict), JObj(D1("a", JInt(1))),
     JObj(Merge(D1("b", JStr("it's")), D1("a", JList(<<JNull, JStr("c\\d")>>)))),
     JList(<<>>), JList(<<JStr("x"), JInt(2)>>)}

\* Bodies of failed responses.
ErrorBodies ==
    {JObj(f) : f \in WithOpt(WithOpt({EmptyDict}, "message", MessageValues),
                             "other", {JStr("x")})}
        \cup Scalars
        \cup {JStr("a message"), JStr("oops"), JStr("message"),
              JList(<<>>), JList(<<JStr("message")>>), JList(<<JStr("other")>>)}

\* Bodies of a create_node reply that reports a vendor-level error.
VendorErrorBodies ==
    {JObj(f) : f \in WithOpt(WithOpt({D1("status", JStr("ERROR"))},
                                     "error_message",
                                     {JStr("quota exceeded"), JNull,
                                      JObj(D1("a", JInt(1))), JList(<<>>)}),
                             "message", {JStr("no quota")})}

Keys == {JNull, JStr("tok1"), JStr("tok2")}
ApiVersions == {JStr("v1"), JStr("v2")}
Classes == {"OneAndOneNodeDriver", "OneAndOne_v1_NodeDriver"}

Names == {JStr("web"), JStr("a\"b\\c" \o DEL)}
SizeArg(id) == [t |-> "NodeSize", v |-> [id |-> id]]
Sizes == {SizeArg(JStr("S")), SizeArg(JStr("M"))}
ImageArg(id) == [t |-> "NodeImage", v |-> [id |-> JStr(id)]]
LocationArg(id) == [t |-> "NodeLocation", v |-> [id |-> JStr(id)]]
\* image and location as a caller passes them together
Placements == {<<ImageArg("img1"), JNull>>, <<ImageArg("img2"), LocationArg("loc1")>>}

Args(name, size, image, location) ==
    [name |-> name, size |-> size, image |-> image, location |-> location]
NoArgs == Args(JNull, JNull, JNull, JNull)
CreateArgs == {Args(n, z, pl[1], pl[2]) : n \in Names, z \in Sizes, pl \in Placements}

Resp(status, body) == [status |-> status, body |-> body]
NoResp == Resp(0, JNull)

\* Replies of the server in the sequences of calls: a good reply, a reply
\* the mapping rejects, a vendor-level error, a 401 and another failure.
GoodNode ==
    JObj(Merge(IdName, Merge(D1("status", StateObj(JStr("POWERED_ON"))),
                             D1("ips", JStr("1.2.3.4")))))
GoodSize ==
    JObj(Merge(IdName, D1("hardware", JObj(Merge(D1("ram", JStr("2")),
                                                  D1("hdds", JList(<<Hdd(40)>>)))))))
GoodImage == JObj(FullImage)
GoodLocation == JObj(FullLocation)
Failures ==
    {Resp(401, JObj(D1("message", JStr("bad token")))),
     Resp(404, JObj(D1("other", JStr("x"))))}
SeqListResponses(good) ==
    {Resp(200, JList(<<>>)), Resp(200, JList(<<good>>)),
     Resp(202, JList(<<good, JObj(D1("name", JStr("n")))>>))} \cup Failures
SeqCreateResponses ==
    {Resp(202, GoodNode), Resp(201, JObj(Merge(IdName, D1("status", JStr("OK"))))),
     Resp(200, JObj(Merge(D1("status", JStr("ERROR")),
                          D1("error_message", JStr("quota exceeded")))))} \cup Failures

(***************************************************************************)
(* The driver as a state machine: construction, then a sequence of calls.  *)
(* requests is the log of requests handed to the transport, history the    *)
(* log of calls made, last the latest call with its reply and outcome.     *)
(***************************************************************************)
NoLast == [op |-> "", args |-> NoArgs, resp |-> NoResp, out |-> Ok(JNull)]
NoCall == [fn |-> "", args |-> NoArgs, status |-> 0, data |-> JNull,
           done |-> FALSE, out |-> Ok(JNull)]

Init ==
    /\ driver = NoDriver
    /\ requests = <<>>
    /\ history = <<>>
    /\ last = NoLast
    /\ call = NoCall

New ==
    \E cls \in Classes, key \in Keys, api_version \in ApiVersions :
        LET r == Construct(cls, key, api_version)
        IN /\ driver = NoDriver
           /\ driver' = IF Raised(r) THEN NoDriver ELSE r.val
           /\ last' = [op |-> "new",
                       args |-> [cls |-> cls, key |-> key, api_version |-> api_version],
                       resp |-> NoResp, out |-> r]
           /\ UNCHANGED <<requests, history, call>>

CanCall == driver # NoDriver /\ Len(history) < MaxCalls

Invoke(op, args, resp, r) ==
    /\ requests' = requests \o r.reqs
    /\ history' = Append(history, [op |-> op, args |-> args])
    /\ last' = [op |-> op, args |-> args, resp |-> resp, out |-> r.out]
    /\ UNCHANGED driver

ListNodes ==
    /\ CanCall
    /\ \E resp \in SeqListResponses(GoodNode) :
           Invoke("list_nodes", NoArgs, resp, list_nodes(driver, resp))
    /\ UNCHANGED call

ListLocations ==
    /\ CanCall
    /\ \E resp \in SeqListResponses(GoodLocation) :
           Invoke("list_locations", NoArgs, resp, list_locations(driver, resp))
    /\ UNCHANGED call

ListImages ==
    /\ CanCall
    /\ \E resp \in SeqListResponses(GoodImage) :
           Invoke("list_images", NoArgs, resp, list_images(driver, resp))
    /\ UNCHANGED call

ListSizes ==
    /\ CanCall
    /\ \E resp \in SeqListResponses(GoodSize) :
           Invoke("list_sizes", NoArgs, resp, list_sizes(driver, resp))
    /\ UNCHANGED call

CreateNode ==
    /\ CanCall
    /\ \E a \in CreateArgs, resp \in SeqCreateResponses :
           Invoke("create_node", a, resp,
                  create_node(driver, a.name, a.size, a.image, a.location, resp))
    /\ UNCHANGED call

Next == New \/ ListNodes \/ ListLocations \/ ListImages \/ ListSizes \/ CreateNode

Spec == Init /\ [][Next]_vars

(***************************************************************************)
(* One operation applied to one input: a function of the response on a     *)
(* status code and a decoded body, a mapping on a payload, or a call of a  *)
(* constructed driver answered by one reply.                               *)
(***************************************************************************)
FnCall(fn, args, status, data) ==
    [fn |-> fn, args |-> args, status |-> status, data |-> data,
     done |-> FALSE, out |-> Ok(JNull)]

FnDriver == OneAndOne_v1_BaseDriver_init("OneAndOne_v1_NodeDriver", JStr("tok1"))

NodeElems ==
    {JObj(f) : f \in WithOpt({IdName}, "status",
                             {StateObj(JStr("DEPLOYING")), StateObj(JStr("POWERED_OFF")),
                              StateObj(JStr("SHUTTING_DOWN")), JStr("OK")})}
NodeLists ==
    {JList(q) : q \in SeqsUpTo(NodeElems, MaxList)}
        \cup Scalars \cup {GoodNode, JStr("ab"), JList(<<JStr("status")>>)}

FnCreateArgs ==
    {Args(JStr("web"), SizeArg(JStr("S")), pl[1], pl[2]) : pl \in Placements}
        \cup {Args(JStr("it's\t\"x\""), SizeArg(JInt(3)), ImageArg("img1"), JNull),
              Args(JNull, SizeArg(JNull), ImageArg("img1"), JNull),
              Args(JStr("web"), JNull, ImageArg("img1"), JNull),
              Args(ImageArg("img1"), SizeArg(JStr("S")), ImageArg("img1"), JNull)}

FnCalls ==
    {FnCall("success", NoArgs, c, JNull) : c \in StatusCodes}
        \cup {FnCall("parse_error", NoArgs, c, b) : c \in StatusCodes, b \in ErrorBodies}
        \cup {FnCall("_to_node", NoArgs, 0, p) : p \in NodePayloads}
        \cup {FnCall("_to_size", NoArgs, 0, p) : p \in SizePayloads}
        \cup {FnCall("_to_image", NoArgs, 0, p) : p \in ImagePayloads}
        \cup {FnCall("_to_location", NoArgs, 0, p) : p \in LocationPayloads}
        \cup {FnCall("list_nodes", NoArgs, c, b) : c \in SuccessCodes, b \in NodeLists}
        \cup {FnCall("list_nodes", NoArgs, r.status, r.body) : r \in Failures}
        \cup {FnCall("create_node", a, c, b) :
                 a \in FnCreateArgs, c \in SuccessCodes,
                 b \in NodePayloads \cup VendorErrorBodies \cup ErrorBodies}
        \cup {FnCall("create_node", a, c, b) :
                 a \in FnCreateArgs, c \in FailureCodes, b \in ErrorBodies}

InitFn ==
    /\ driver = FnDriver
    /\ requests = <<>>
    /\ history = <<>>
    /\ last = NoLast
    /\ call \in FnCalls

Apply(fn, out) ==
    /\ call.fn = fn
    /\ ~call.done
    /\ call' = [call EXCEPT !.done = TRUE, !.out = out]

ApplySuccess ==
    /\ Apply("success", Ok(success(call.status)))
    /\ UNCHANGED <<driver, requests, history, last>>
ApplyParseError ==
    /\ Apply("parse_error", parse_error(call.status, call.data))
    /\ UNCHANGED <<driver, requests, history, last>>
ApplyToNode ==
    /\ Apply("_to_node", _to_node(call.data))
    /\ UNCHANGED <<driver, requests, history, last>>
ApplyToSize ==
    /\ Apply("_to_size", _to_size(call.data))
    /\ UNCHANGED <<driver, requests, history, last>>
ApplyToImage ==
    /\ Apply("_to_image", _to_image(call.data))
    /\ UNCHANGED <<driver, requests, history, last>>
ApplyToLocation ==
    /\ Apply("_to_location", _to_location(call.data))
    /\ UNCHANGED <<driver, requests, history, last>>
ApplyListNodes ==
    LET resp == Resp(call.status, call.data)
        r == list_nodes(driver, resp)
    IN /\ Apply("list_nodes", r.out)
       /\ Invoke("list_nodes", call.args, resp, r)
ApplyCreateNode ==
    LET resp == Resp(call.status, call.data)
        r == create_node(driver, call.args.name, call.args.size, call.args.image,
                         call.args.location, resp)
    IN /\ Apply("create_node", r.out)
       /\ Invoke("create_node", call.args, resp, r)

NextFn ==
    ApplySuccess \/ ApplyParseError \/ ApplyToNode \/ ApplyToSize
        \/ ApplyToImage \/ ApplyToLocation \/ ApplyListNodes \/ ApplyCreateNode

SpecFn == InitFn /\ [][NextFn]_vars

(***************************************************************************)
(* Properties.                                                             *)
(***************************************************************************)
Has(p, k) == p.t = "obj" /\ HasKey(p.v, k)
Val(p, k) == Lookup(p.v, k)
HttpSuccess(c) == c \in {200, 201, 202, 204}
Done(fn) == call.fn = fn /\ call.done
Returned(o, cls) == o.kind = "return" /\ o.val.t = cls

\* C1: constructing the facade with a key and an api_version other than
\* "v1" raises the unsupported-version error naming that version and leaves
\* no driver behind.
C1_UnsupportedVersionRejected ==
    (/\ last.op = "new"
     /\ last.args.cls = "OneAndOneNodeDriver"
     /\ last.args.key # JNull
     /\ last.args.api_version # JStr("v1"))
    => /\ last.out.kind = "raise"
       /\ last.out.exc = "NotImplementedError"
       /\ last.out.val = JStr("Unsupported API version: " \o last.args.api_version.v)
       /\ driver = NoDriver

\* The text of the value a vendor error carries, written out per value.
C2_Text(x) ==
    CASE x = JNull -> "None"
      [] x = JObj(D1("a", JInt(1))) -> "{'a': 1}"
      [] x = JList(<<>>) -> "[]"
      [] OTHER -> x.v
C2_Carried(body) ==
    IF Has(body, "error_message") THEN C2_Text(Val(body, "error_message"))
    ELSE IF Has(body, "message") THEN C2_Text(Val(body, "message"))
    ELSE "None"
C2_VendorError(body) == Has(body, "status") /\ Val(body, "status") = JStr("ERROR")
C2_Sent == Done("create_node") /\ Len(requests) = 1

\* C2: an HTTP-successful create_node reply whose body has status "ERROR"
\* raises the node-creation error carrying error_message, else message, else
\* the generic text; any other HTTP-successful reply raises no such error,
\* and the outcome for an object body is that of the node mapping applied
\* to the body.
C2_CreateNodeVendorError ==
    (C2_Sent /\ HttpSuccess(call.status))
    => IF C2_VendorError(call.data)
       THEN /\ call.out.kind = "raise"
            /\ call.out.exc = "ValueError"
            /\ call.out.val = JStr("Failed to create node: " \o C2_Carried(call.data))
       ELSE /\ ~(call.out.kind = "raise" /\ call.out.exc = "ValueError")
            /\ call.data.t = "obj" => call.out = _to_node(call.data)
C2_Witness ==
    /\ C2_Sent /\ HttpSuccess(call.status)
    /\ C2_VendorError(call.data)
    /\ ~Has(call.data, "error_message") /\ Has(call.data, "message")
    /\ call.out = Raise("ValueError", JStr("Failed to create node: no quota"))

\* C3: parse_error raises the invalid-credentials error carrying the
\* body's message for every 401; for another status it returns
\* "<message> (code: <status>)" when the body has a message and the body
\* itself when it has none.
C3_ParseErrorClassifies ==
    Done("parse_error")
    => IF call.status = 401
       THEN /\ call.out.kind = "raise"
            /\ call.out.exc = "InvalidCredsError"
            /\ Has(call.data, "message") => call.out.val = Val(call.data, "message")
       ELSE IF Has(call.data, "message")
            THEN /\ call.out.kind = "return"
                 /\ call.out.val.t = "str"
                 /\ Val(call.data, "message").t = "str"
                    => call.out.val.v = Val(call.data, "message").v \o " (code: "
                                            \o ToString(call.status) \o ")"
            ELSE call.out = Ok(call.data)

\* C4: success() is true exactly for the codes 200, 201, 202 and 204.
C4_SuccessIffValidCode ==
    Done("success") => (call.out.val <=> call.status \in {200, 201, 202, 204})
C4_Witness ==
    /\ Done("success") /\ call.status = 401 /\ call.out = Ok(FALSE)

C5_StateString(p) ==
    /\ Has(p, "status") /\ Has(Val(p, "status"), "state")
    /\ Val(Val(p, "status"), "state").t = "str"
C5_InScope(p) == p.t = "obj" /\ (~Has(p, "status") \/ C5_StateString(p))
C5_Expected(p) ==
    IF ~Has(p, "status") THEN "unknown"
    ELSE LET s == Val(Val(p, "status"), "state").v
         IN CASE s = "DEPLOYING" -> "pending"
              [] s = "POWERED_OFF" -> "rebooting"
              [] s = "POWERED_ON" -> "running"
              [] OTHER -> "unknown"

\* C5: the state of every node the mapping returns is the fixed lookup of
\* the payload's status.state (DEPLOYING pending, POWERED_OFF rebooting,
\* POWERED_ON running, any other string unknown, no status unknown), for
\* the mapping itself and for the nodes of list_nodes and create_node; and
\* a payload with id and name whose status is absent or carries a state
\* string is mapped.
C5_NodeStateLookup ==
    /\ (/\ Done("_to_node") \/ (C2_Sent /\ HttpSuccess(call.status)
                                /\ ~C2_VendorError(call.data))
        /\ C5_InScope(call.data))
       => /\ Returned(call.out, "Node") => call.out.val.v.state = C5_Expected(call.data)
          /\ (Has(call.data, "id") /\ Has(call.data, "name"))
             => Returned(call.out, "Node")
    /\ (Done("list_nodes") /\ call.data.t = "list" /\ call.out.kind = "return")
       => /\ Len(call.out.val.v) = Len(call.data.v)
          /\ \A i \in 1..Len(call.data.v) :
                 C5_InScope(call.data.v[i])
                 => call.out.val.v[i].v.state = C5_Expected(call.data.v[i])
C5_Witness ==
    /\ C2_Sent
    /\ C5_StateString(call.data)
    /\ Val(Val(call.data, "status"), "state") = JStr("POWERED_OFF")
    /\ Returned(call.out, "Node")
    /\ call.out.val.v.state = "rebooting"

\* The number a vendor ram value denotes, written out per value; -1 for a
\* value that denotes none.
C6_Ram(r) ==
    CASE r = JInt(4) -> 4
      [] r = JBool(TRUE) -> 1
      [] r = JStr("2") -> 2
      [] r = JStr("8") -> 8
      [] r = JStr(" 2 ") -> 2
      [] r = JStr("+16\n") -> 16
      [] r = JStr("1_0") -> 10
      [] OTHER -> -1
C6_Numeric(r) == r = JStr("-3") \/ C6_Ram(r) >= 0
C6_RamValue(r) == IF r = JStr("-3") THEN 0 - 3 ELSE C6_Ram(r)
C6_WellFormed(p) ==
    /\ Has(p, "id") /\ Has(p, "name") /\ Has(p, "hardware")
    /\ LET h == Val(p, "hardware")
       IN /\ Has(h, "ram") /\ C6_Numeric(Val(h, "ram"))
          /\ Has(h, "hdds") /\ Val(h, "hdds").t = "list" /\ Len(Val(h, "hdds").v) > 0
          /\ Has(Val(h, "hdds").v[1], "size")

\* C6: the size mapping returns exactly for the payloads that carry id,
\* name and a hardware block with a numeric ram and a first hdds entry with
\* a size, and then ram is 1024 times the vendor value, disk the first
\* entry's size, bandwidth and price 0; with the hardware block absent or
\* the hdds list empty it raises and returns nothing.
C6_SizeMappingStrict ==
    Done("_to_size")
    => /\ C6_WellFormed(call.data) <=> Returned(call.out, "NodeSize")
       /\ Returned(call.out, "NodeSize")
          => LET h == Val(call.data, "hardware")
             IN /\ call.out.val.v.ram = JInt(1024 * C6_RamValue(Val(h, "ram")))
                /\ call.out.val.v.disk = Val(Val(h, "hdds").v[1], "size")
                /\ call.out.val.v.bandwidth = 0
                /\ call.out.val.v.price = 0
       /\ (~Has(call.data, "hardware")
           \/ (/\ Has(Val(call.data, "hardware"), "hdds")
               /\ Val(Val(call.data, "hardware"), "hdds") = JList(<<>>)))
          => call.out.kind = "raise"
C6_Witness ==
    /\ Done("_to_size")
    /\ Has(call.data, "id") /\ Has(call.data, "hardware")
    /\ Has(Val(call.data, "hardware"), "ram") /\ Has(Val(call.data, "hardware"), "hdds")
    /\ Val(Val(call.data, "hardware"), "hdds") = JList(<<>>)
    /\ call.out = Raise("IndexError", JStr("list index out of range"))

\* C7: every request of every sequence of calls carries X-token equal to
\* the configured key and Content-Type equal to application/json.
C7_DefaultHeaders ==
    \A i \in 1..Len(requests) :
        /\ HasKey(requests[i].headers, "X-token")
        /\ HasKey(requests[i].headers, "Content-Type")
        /\ Lookup(requests[i].headers, "X-token") = driver.key
        /\ Lookup(requests[i].headers, "Content-Type") = JStr("application/json")
C7_Witness ==
    /\ Len(requests) = 2
    /\ requests[1].method = "POST" /\ requests[2].method = "GET"
    /\ driver.key = JStr("tok2")
    /\ Lookup(requests[1].headers, "X-token") = JStr("tok2")

C8_Route(op) ==
    CASE op = "list_nodes" -> <<"GET", "/v1/servers">>
      [] op = "list_locations" -> <<"GET", "/v1/datacenters">>
      [] op = "list_images" -> <<"GET", "/v1/server_appliances">>
      [] op = "list_sizes" -> <<"GET", "/v1/servers/fixed_instance_sizes">>
      [] op = "create_node" -> <<"POST", "/v1/servers">>

\* C8: every call issues exactly one request, to the path and with the
\* method of its operation, whether it returns or fails.
C8_OneRequestPerCall ==
    /\ Len(requests) = Len(history)
    /\ \A i \in 1..Len(history) :
           <<requests[i].method, requests[i].path>> = C8_Route(history[i].op)
C8_Witness ==
    /\ Len(history) = 2 /\ Len(requests) = 2
    /\ history[1].op = "list_nodes"
    /\ history[2].op = "list_sizes"
    /\ last.out.kind = "raise" /\ last.out.exc = "VendorError"

\* The JSON text of a name, written out per name.
C9_Name(name) ==
    IF name = "web" THEN "\"web\"" ELSE "\"a\\\"b\\\\c\\u007f\""
C9_Body(name, sid) ==
    "{\"name\": " \o C9_Name(name) \o ", \"description\": \"test\", "
        \o "\"hardware\": {\"fixed_instance_size_id\": \"" \o sid \o "\"}, "
        \o "\"appliance_id\": \"7B9067380CB74BBDFE7F473DEEA2AF5C\"}"
C9_Creates == {i \in 1..Len(history) : history[i].op = "create_node" /\ i <= Len(requests)}

\* C9: the body create_node posts is determined by name and size.id: two
\* calls that agree on both post the same body whatever image and location
\* they pass, and the body is name, description "test", the hardware
\* selector with size.id and the fixed appliance id.
C9_BodyIgnoresImageLocation ==
    /\ \A i \in C9_Creates, j \in C9_Creates :
           (/\ history[i].args.name = history[j].args.name
            /\ history[i].args.size.v.id = history[j].args.size.v.id)
           => requests[i].data = requests[j].data
    /\ \A i \in C9_Creates :
           requests[i].data = JStr(C9_Body(history[i].args.name.v,
                                           history[i].args.size.v.id.v))
C9_Witness ==
    /\ Len(history) = 2 /\ Len(requests) = 2
    /\ history[1].op = "create_node" /\ history[2].op = "create_node"
    /\ history[1].args.name = JStr("a\"b\\c" \o DEL)
    /\ history[1].args.name = history[2].args.name
    /\ history[1].args.size = history[2].args.size
    /\ history[1].args.image # history[2].args.image
    /\ history[1].args.location # history[2].args.location
    /\ requests[1].data = requests[2].data

\* C10: the node mapping returns a Node for every payload that carries id
\* and name, whatever its status, ips and passthrough fields, and so does
\* create_node for every HTTP-successful reply whose status is not "ERROR".
C10_NodeMappingTotal ==
    (/\ Done("_to_node") \/ (C2_Sent /\ HttpSuccess(call.status)
                             /\ ~C2_VendorError(call.data))
     /\ Has(call.data, "id") /\ Has(call.data, "name"))
    => Returned(call.out, "Node")

====
